---- MODULE Spec2Model ----
(***************************************************************************)
(* The FastAPI application object of src/applications.py: construction    *)
(* and setup of the auxiliary routes, route registration, the memoized    *)
(* OpenAPI document, the middleware stack and the ASGI entry point.       *)
(*                                                                         *)
(* Strings are sequences of tokens in which "/" is a token of its own, so  *)
(* that str.startswith("/") and string concatenation are computed.  The   *)
(* collaborators that src/ only imports (the router, the schema           *)
(* generator, the error boundary) follow their description in spec.md.    *)
(***************************************************************************)
EXTENDS Integers, Sequences, FiniteSets, TLC

VARIABLES
    args,          \* the keyword arguments of the constructor call
    status,        \* "new", then "ready" or the error the constructor raised
    app,           \* the fields of the FastAPI instance
    sub_router,    \* routes of the caller's APIRouter handed to include_router
    req,           \* the request being served by __call__
    generator,     \* which get_openapi the application is linked with
    gen_calls,     \* number of get_openapi invocations so far
    openapi_rets,  \* the documents openapi() returned, in call order
    added,         \* middleware classes passed to add_middleware, in call order
    last_include,  \* the prefix of the include_router call just made, else NoneStr
    peer,          \* a second FastAPI instance made by the same caller
    readers        \* the threads running openapi(), each with its position

vars == <<args, status, app, sub_router, req, generator, gen_calls, openapi_rets,
          added, last_include, peer, readers>>

-----------------------------------------------------------------------------
(* Bounds of the model *)

MaxRoutes == 1          \* registrations made after construction
MaxMiddleware == 2      \* add_middleware calls
MaxOpenapiCalls == 2    \* openapi() calls (direct or through the schema route)
MaxReaders == 2         \* threads inside openapi() at the same time

-----------------------------------------------------------------------------
(* Python values *)

NoneStr == <<"<None>">>      \* None where Optional[str] is expected
NoneList == <<"<None>">>     \* None where Optional[List] is expected
NoneDict == {"<None>"}       \* None where Optional[Dict] is expected

\* A document (Dict[str, Any]): none marks Python's None, info the presence of the
\* metadata entries, paths the entries of the visible routes.  The empty dict is
\* EmptyDoc.
NoDoc == [none |-> TRUE, info |-> FALSE, paths |-> {}]
EmptyDoc == [none |-> FALSE, info |-> FALSE, paths |-> {}]

\* bool(s) of an Optional[str]
Truthy(s) == s # NoneStr /\ s # <<>>

\* s.startswith("/")
StartsWithSlash(s) == Len(s) > 0 /\ s[1] = "/"

DefaultOpenapiUrl == <<"/", "openapi.json">>
DefaultDocsUrl == <<"/", "docs">>
DefaultRedocUrl == <<"/", "redoc">>
DefaultOauth2Url == <<"/", "docs", "/", "oauth2-redirect">>

\* Error kinds and their generalization chains (most specific first).
CatchAll == "Exception"
Kinds == {"KeyError", "LookupError", "Exception"}
Ancestors(k) ==
    CASE k = "KeyError" -> <<"LookupError", "Exception">>
      [] k = "LookupError" -> <<"Exception">>
      [] OTHER -> <<>>

MiddlewareClasses == {"M1", "M2"}
MiddlewareRaises == {"KeyError"}      \* what a middleware's own code may raise

-----------------------------------------------------------------------------
(* The route registry (starlette/fastapi router, imported by src/) *)

Route(path, endpoint, include_in_schema) ==
    [path |-> path, kind |-> "route", endpoint |-> endpoint,
     include_in_schema |-> include_in_schema]

WebSocketRoute(path) ==
    [path |-> path, kind |-> "websocket", endpoint |-> "user",
     include_in_schema |-> FALSE]

\* Router.add_route: one more record at the end of the registry.
Router_add_route(routes, path, endpoint, include_in_schema) ==
    Append(routes, Route(path, endpoint, include_in_schema))

\* Router.add_websocket_route
Router_add_websocket_route(routes, path) ==
    Append(routes, WebSocketRoute(path))

\* APIRouter.include_router: every record of the sub-registry is merged as a new
\* record whose path is prefix + path.  ok is FALSE (nothing is merged) when a
\* supplied prefix does not start with "/".
RECURSIVE MergeRoutes(_, _, _, _)
MergeRoutes(routes, sub, prefix, include_in_schema) ==
    IF sub = <<>> THEN routes
    ELSE MergeRoutes(
            Append(routes,
                   [Head(sub) EXCEPT
                      !.path = prefix \o @,
                      !.include_in_schema = @ /\ include_in_schema]),
            Tail(sub), prefix, include_in_schema)

APIRouter_include_router(routes, sub, prefix, include_in_schema) ==
    IF prefix # <<>> /\ ~StartsWithSlash(prefix)
    THEN [ok |-> FALSE, routes |-> routes]
    ELSE [ok |-> TRUE, routes |-> MergeRoutes(routes, sub, prefix, include_in_schema)]

-----------------------------------------------------------------------------
(* FastAPI.add_route, add_websocket_route, include_router: src lines 239-324 *)

add_route(routes, path, endpoint, include_in_schema) ==
    Router_add_route(routes, path, endpoint, include_in_schema)

add_websocket_route(routes, path) ==
    Router_add_websocket_route(routes, path)

\* include_router that does not hand its prefix on
include_router_noprefix(routes, sub, prefix, include_in_schema) ==
    APIRouter_include_router(routes, sub, <<>>, include_in_schema)

include_router(routes, sub, prefix, include_in_schema) ==
    APIRouter_include_router(routes, sub, prefix, include_in_schema)

-----------------------------------------------------------------------------
(* FastAPI.setup: src lines 176-218.  Each step takes and returns          *)
(* [ok, routes]; a failed assert leaves ok = FALSE and stops the rest.     *)

setup_openapi(a, r) ==
    IF ~r.ok \/ ~Truthy(a.openapi_url) THEN r
    ELSE IF ~StartsWithSlash(a.openapi_url) THEN [r EXCEPT !.ok = FALSE]
    ELSE [r EXCEPT !.routes = add_route(@, a.openapi_url, "openapi", FALSE)]

setup_oauth2(a, r) ==
    IF ~r.ok \/ ~Truthy(a.swagger_ui_oauth2_redirect_url) THEN r
    ELSE IF ~StartsWithSlash(a.swagger_ui_oauth2_redirect_url)
         THEN [r EXCEPT !.ok = FALSE]
    ELSE [r EXCEPT !.routes =
             add_route(@, a.swagger_ui_oauth2_redirect_url, "oauth2_redirect", FALSE)]

\* setup without the assert on docs_url
setup_docs_nocheck(a, r) ==
    IF ~r.ok \/ ~(Truthy(a.openapi_url) /\ Truthy(a.docs_url)) THEN r
    ELSE setup_oauth2(a, [r EXCEPT !.routes = add_route(@, a.docs_url, "swagger_ui", FALSE)])

setup_docs(a, r) ==
    IF ~r.ok \/ ~(Truthy(a.openapi_url) /\ Truthy(a.docs_url)) THEN r
    ELSE IF ~StartsWithSlash(a.docs_url) THEN [r EXCEPT !.ok = FALSE]
    ELSE setup_oauth2(a, [r EXCEPT !.routes = add_route(@, a.docs_url, "swagger_ui", FALSE)])

\* setup that registers the alternate-docs record with the default visibility
setup_redoc_visible(a, r) ==
    IF ~r.ok \/ ~(Truthy(a.openapi_url) /\ Truthy(a.redoc_url)) THEN r
    ELSE IF ~StartsWithSlash(a.redoc_url) THEN [r EXCEPT !.ok = FALSE]
    ELSE [r EXCEPT !.routes = add_route(@, a.redoc_url, "redoc", TRUE)]

setup_redoc(a, r) ==
    IF ~r.ok \/ ~(Truthy(a.openapi_url) /\ Truthy(a.redoc_url)) THEN r
    ELSE IF ~StartsWithSlash(a.redoc_url) THEN [r EXCEPT !.ok = FALSE]
    ELSE [r EXCEPT !.routes = add_route(@, a.redoc_url, "redoc", FALSE)]

\* setup without its last block
setup_without_redoc(a, routes) ==
    setup_docs(a, setup_openapi(a, [ok |-> TRUE, routes |-> routes]))

setup(a, routes) ==
    setup_redoc(a, setup_docs(a, setup_openapi(a, [ok |-> TRUE, routes |-> routes])))

-----------------------------------------------------------------------------
(* FastAPI.build_middleware_stack: src lines 341-349.  The chain is the    *)
(* ServerErrorMiddleware around the user middleware around the router; its *)
(* layers are listed outermost first.                                       *)

\* for middleware in reversed(user_middleware): app = middleware.cls(app=app)
RECURSIVE WrapReversed(_, _)
WrapReversed(layers, user_middleware) ==
    IF user_middleware = <<>> THEN layers
    ELSE LET n == Len(user_middleware)
         IN  WrapReversed(<<user_middleware[n]>> \o layers,
                          SubSeq(user_middleware, 1, n - 1))

\* The router alone, without the error boundary around it.
build_no_boundary(user_middleware, debug, exception_handlers) ==
    [layers |-> WrapReversed(<<>>, user_middleware), app |-> "router",
     boundary |-> FALSE, debug |-> debug, handler |-> exception_handlers]

build_middleware_stack(user_middleware, debug, exception_handlers) ==
    [layers |-> WrapReversed(<<>>, user_middleware), app |-> "router",
     boundary |-> TRUE, debug |-> debug, handler |-> exception_handlers]

-----------------------------------------------------------------------------
(* The schema generator (fastapi.openapi.utils.get_openapi, imported by    *)
(* src/): a pure function of the snapshot it is given.  The "standard"     *)
(* generator always writes the metadata entries; the "bare" one writes     *)
(* only the entries of the visible routes, so it returns the empty dict    *)
(* for a registry that has none.                                           *)

Generators == {"standard", "bare"}

VisiblePaths(routes) ==
    {routes[i].path : i \in {j \in 1..Len(routes) :
        routes[j].kind = "route" /\ routes[j].include_in_schema}}

get_openapi(gen, routes) ==
    [none |-> FALSE, info |-> (gen = "standard"), paths |-> VisiblePaths(routes)]

\* `not d` of an Optional[Dict]: None and the empty dict are both falsy.
Falsy(d) == d.none \/ (~d.info /\ d.paths = {})

-----------------------------------------------------------------------------
(* FastAPI.openapi: src lines 220-237.  The result is                      *)
(* [schema: the cache afterwards, generated: whether get_openapi ran];     *)
(* the call returns schema.                                                *)

openapi_isnone(gen, a) ==
    IF a.openapi_schema.none
    THEN [schema |-> get_openapi(gen, a.routes), generated |-> TRUE]
    ELSE [schema |-> a.openapi_schema, generated |-> FALSE]

openapi_always(gen, a) ==
    [schema |-> get_openapi(gen, a.routes), generated |-> TRUE]

openapi(gen, a) ==
    IF Falsy(a.openapi_schema)
    THEN [schema |-> get_openapi(gen, a.routes), generated |-> TRUE]
    ELSE [schema |-> a.openapi_schema, generated |-> FALSE]

-----------------------------------------------------------------------------
(* The error boundary (starlette's ServerErrorMiddleware, imported by      *)
(* src/), after spec.md 3, 4.1 and 7.                                      *)

\* Exact kind, then each ancestor in order, then the catch-all.
LookupOrder(k) == <<k>> \o Ancestors(k) \o <<CatchAll>>

\* The first kind of LookupOrder(k) that has a handler, or "" when none has.
LookupHandler(handler, k) ==
    LET order == LookupOrder(k)
        hits == {i \in 1..Len(order) : order[i] \in handler}
    IN  IF hits = {} THEN ""
        ELSE order[CHOOSE i \in hits : \A j \in hits : i <= j]

Response(st, by, detail) == [status |-> st, by |-> by, detail |-> detail]

\* What the boundary answers to a failure of kind k raised by the inner chain:
\* the response, and how many times the failure is reported to the host.
ServerErrorMiddleware(stack, k) ==
    LET h == LookupHandler(stack.handler, k)
    IN  IF h # "" THEN [response |-> Response("handled", h, FALSE), reported |-> 0]
        ELSE IF stack.debug
             THEN [response |-> Response("500", "", TRUE), reported |-> 1]
             ELSE [response |-> Response("500", "", FALSE), reported |-> 1]

-----------------------------------------------------------------------------
(* Dispatch through a built chain.                                         *)

\* The pre-processing events of the first n layers, outermost first.
PreEvents(layers, n) == [i \in 1..n |-> <<"pre", layers[i]>>]

\* Router dispatch: the first request/response record at this path, or 0.
Match(routes, path) ==
    LET hits == {i \in 1..Len(routes) :
                    routes[i].kind = "route" /\ routes[i].path = path}
    IN  IF hits = {} THEN 0 ELSE CHOOSE i \in hits : \A j \in hits : i <= j

\* The inner chain (middleware layers, then the router and the handler) run for a
\* request at `path`: layers 1..stop-1 pass the request on; layer `stop` raises
\* `out`, or, when stop is past the last layer, the router dispatches and the
\* handler returns ("ok") or raises `out`.
InnerChain(stack, routes, path, stop, out) ==
    LET n == Len(stack.layers)
        m == Match(routes, path)
    IN  IF stop <= n
        THEN [trace |-> PreEvents(stack.layers, stop), raised |-> out,
              response |-> Response("", "", FALSE), endpoint |-> ""]
        ELSE [trace |-> PreEvents(stack.layers, n) \o <<<<"dispatch", stack.app>>>>,
              raised |-> IF out = "ok" THEN "" ELSE out,
              response |-> IF m = 0 THEN Response("404", "", FALSE)
                           ELSE Response("200", "", FALSE),
              endpoint |-> IF m = 0 THEN "" ELSE routes[m].endpoint]

\* The outcomes the inner chain can have for this request.
Outcomes(stack, routes, path) ==
    LET n == Len(stack.layers)
        m == Match(routes, path)
    IN  ((1..n) \X MiddlewareRaises)
        \cup {<<n + 1, out>> : out \in
                IF m # 0 /\ routes[m].endpoint = "user"
                THEN Kinds \cup {"ok"} ELSE {"ok"}}

-----------------------------------------------------------------------------
(* FastAPI.__call__: src lines 351-354 *)

\* scope.setdefault("root_path", self.root_path)
call_setdefault(scope_root, a) ==
    IF scope_root = NoneStr THEN a.root_path ELSE scope_root

\* scope["root_path"] = self.root_path
call_scope(scope_root, a) == a.root_path

-----------------------------------------------------------------------------
(* FastAPI.add_middleware: src lines 326-339 *)

\* middleware or [] (line 168): the caller's list object itself when it is
\* non-empty, a new empty list otherwise.
middleware_or_empty(middleware) ==
    IF middleware = NoneList \/ middleware = <<>>
    THEN [list |-> <<>>, fresh |-> TRUE]
    ELSE [list |-> middleware, fresh |-> FALSE]

\* self.user_middleware.insert(0, ...) as seen through another instance p: the
\* list object changes for every holder of it.
insert_seen_by(p, um) ==
    IF p.shared THEN [p EXCEPT !.user_middleware = um] ELSE p

\* add_middleware that appends instead of inserting at the front
add_middleware_append(a, cls) ==
    LET um == Append(a.user_middleware, cls)
    IN  [a EXCEPT !.user_middleware = um,
                  !.middleware_stack =
                      build_middleware_stack(um, a._debug, a.exception_handlers)]

add_middleware(a, cls) ==
    LET um == <<cls>> \o a.user_middleware
    IN  [a EXCEPT !.user_middleware = um,
                  !.middleware_stack =
                      build_middleware_stack(um, a._debug, a.exception_handlers)]

-----------------------------------------------------------------------------
(* State *)

NoStack == [layers |-> <<>>, app |-> "router", boundary |-> FALSE,
            debug |-> FALSE, handler |-> {}]

NoApp ==
    [_debug |-> FALSE, root_path |-> <<>>, openapi_url |-> NoneStr,
     docs_url |-> NoneStr, redoc_url |-> NoneStr,
     swagger_ui_oauth2_redirect_url |-> NoneStr, routes |-> <<>>,
     openapi_schema |-> NoDoc, user_middleware |-> <<>>,
     middleware_stack |-> NoStack, exception_handlers |-> {}]

NoRequest ==
    [phase |-> "none", incoming |-> NoneStr, root_path |-> NoneStr,
     stack |-> NoStack, path |-> <<>>, trace |-> <<>>, raised |-> "",
     responses |-> <<>>, reported |-> 0, escaped |-> FALSE]

\* No second instance yet.  shared tells whether the instance's user_middleware is
\* the very list object that `app` holds (both made from one caller's list).
NoPeer ==
    [status |-> "none", user_middleware |-> <<>>, middleware_stack |-> NoStack,
     shared |-> FALSE]

\* A thread inside openapi(): where it is, and the document it has in hand.
Readers == 1..MaxReaders
IdleReader == [pc |-> "idle", doc |-> NoDoc]

\* The handler maps the constructor is called with, and the values a read of an
\* attribute that was never assigned can find on the class.
HandlerMaps == {{}, {"LookupError"}, {"KeyError", "Exception"}}

\* Line 347 reads self.exception_handlers while __init__ has not assigned it yet
\* (line 169 runs before line 170): the lookup falls through to the classes, where
\* it raises AttributeError or finds whatever a base class holds.
ClassHandlerMaps == {{}, {"Exception"}}
UnassignedReads ==
    {[raises |-> TRUE, value |-> {}]}
    \cup {[raises |-> FALSE, value |-> h] : h \in ClassHandlerMaps}

GoodUrls ==
    [openapi_url |-> DefaultOpenapiUrl, docs_url |-> DefaultDocsUrl,
     redoc_url |-> DefaultRedocUrl,
     swagger_ui_oauth2_redirect_url |-> DefaultOauth2Url]

\* Not configured, well formed, or without the leading "/".
UrlChoices(good) == {NoneStr, good, Tail(good)}

AllUrls ==
    [openapi_url : UrlChoices(DefaultOpenapiUrl) \cup {<<>>},
     docs_url : UrlChoices(DefaultDocsUrl),
     redoc_url : UrlChoices(DefaultRedocUrl),
     swagger_ui_oauth2_redirect_url : UrlChoices(DefaultOauth2Url)]

CtorArgs(urls, debugs, roots, mws, ehs) ==
    {[debug |-> d, root_path |-> r, openapi_url |-> u.openapi_url,
      docs_url |-> u.docs_url, redoc_url |-> u.redoc_url,
      swagger_ui_oauth2_redirect_url |-> u.swagger_ui_oauth2_redirect_url,
      middleware |-> m, exception_handlers |-> e] :
        u \in urls, d \in debugs, r \in roots, m \in mws, e \in ehs}

RootPaths == {<<>>, <<"/", "api">>}
IncomingRoots == {NoneStr, <<"/", "proxy">>}
UserPath == <<"/", "x">>
Prefixes == {<<>>, <<"/", "p">>, <<"p">>}
ReqPaths == {UserPath, DefaultOpenapiUrl}

InitWith(argset, gens) ==
    /\ args \in argset
    /\ generator \in gens
    /\ status = "new"
    /\ app = NoApp
    /\ sub_router = <<Route(UserPath, "user", TRUE)>>
    /\ req = NoRequest
    /\ gen_calls = 0
    /\ openapi_rets = <<>>
    /\ added = <<>>
    /\ last_include = NoneStr
    /\ peer = NoPeer
    /\ readers = [r \in Readers |-> IdleReader]

Init ==
    InitWith(CtorArgs({GoodUrls}, {FALSE}, RootPaths, {NoneList, <<"M1">>}, {NoneDict}),
             {"standard"})

-----------------------------------------------------------------------------
(* Actions *)

\* FastAPI.__init__: src lines 133-174
__init__ ==
    /\ status = "new"
    /\ \E rd \in UnassignedReads :
        LET um == middleware_or_empty(args.middleware).list
            eh == IF args.exception_handlers = NoneDict \/ args.exception_handlers = {}
                  THEN {} ELSE args.exception_handlers
            a0 == [NoApp EXCEPT
                     !._debug = args.debug,
                     !.root_path = args.root_path,
                     !.openapi_url = args.openapi_url,
                     !.docs_url = args.docs_url,
                     !.redoc_url = args.redoc_url,
                     !.swagger_ui_oauth2_redirect_url = args.swagger_ui_oauth2_redirect_url,
                     !.user_middleware = um]
            a1 == [a0 EXCEPT
                     !.middleware_stack =
                         build_middleware_stack(um, args.debug, rd.value),
                     !.exception_handlers = eh]
            s == setup(a1, a1.routes)
        IN  IF rd.raises THEN status' = "AttributeError" /\ app' = app
            ELSE IF ~s.ok THEN status' = "AssertionError" /\ app' = app
            ELSE status' = "ready" /\ app' = [a1 EXCEPT !.routes = s.routes]
    /\ UNCHANGED <<peer, readers, args, sub_router, req, generator, gen_calls, openapi_rets, added,
                   last_include>>

UserRoutes == Len(app.routes) - Len(setup(app, <<>>).routes)

\* add_route that also rebuilds the chain from the application's current fields
AddRoute_rebuild ==
    /\ status = "ready"
    /\ req.phase # "done"
    /\ UserRoutes < MaxRoutes
    /\ \E vis \in BOOLEAN :
        app' = [app EXCEPT
                  !.routes = add_route(@, UserPath, "user", vis),
                  !.middleware_stack =
                      build_middleware_stack(app.user_middleware, app._debug,
                                             app.exception_handlers)]
    /\ last_include' = NoneStr
    /\ UNCHANGED <<peer, readers, args, status, sub_router, req, generator, gen_calls, openapi_rets, added>>

\* app.add_route(path, endpoint, include_in_schema=...)
AddRoute ==
    /\ status = "ready"
    /\ req.phase # "done"
    /\ UserRoutes < MaxRoutes
    /\ \E vis \in BOOLEAN :
        app' = [app EXCEPT !.routes = add_route(@, UserPath, "user", vis)]
    /\ last_include' = NoneStr
    /\ UNCHANGED <<peer, readers, args, status, sub_router, req, generator, gen_calls, openapi_rets, added>>

\* app.add_websocket_route(path, endpoint)
AddWebsocketRoute ==
    /\ status = "ready"
    /\ req.phase # "done"
    /\ UserRoutes < MaxRoutes
    /\ app' = [app EXCEPT !.routes = add_websocket_route(@, UserPath)]
    /\ last_include' = NoneStr
    /\ UNCHANGED <<peer, readers, args, status, sub_router, req, generator, gen_calls, openapi_rets, added>>

\* app.include_router(sub_router, prefix=...)
IncludeRouter ==
    /\ status = "ready"
    /\ req.phase # "done"
    /\ UserRoutes < MaxRoutes
    /\ \E prefix \in Prefixes :
        LET r == include_router(app.routes, sub_router, prefix, TRUE)
        IN  /\ r.ok
            /\ app' = [app EXCEPT !.routes = r.routes]
            /\ last_include' = prefix
    /\ UNCHANGED <<peer, readers, args, status, sub_router, req, generator, gen_calls, openapi_rets, added>>

\* app.add_middleware(cls)
AddMiddleware ==
    /\ status = "ready"
    /\ req.phase # "done"
    /\ Len(added) < MaxMiddleware
    /\ \E cls \in MiddlewareClasses :
        /\ app' = add_middleware(app, cls)
        /\ added' = Append(added, cls)
    /\ peer' = insert_seen_by(peer, app'.user_middleware)
    /\ last_include' = NoneStr
    /\ UNCHANGED <<readers, args, status, sub_router, req, generator, gen_calls, openapi_rets>>

\* app.openapi() called directly
OpenAPI ==
    /\ status = "ready"
    /\ req.phase # "done"
    /\ Len(openapi_rets) < MaxOpenapiCalls
    /\ LET r == openapi(generator, app)
       IN  /\ app' = [app EXCEPT !.openapi_schema = r.schema]
           /\ gen_calls' = gen_calls + (IF r.generated THEN 1 ELSE 0)
           /\ openapi_rets' = Append(openapi_rets, r.schema)
    /\ last_include' = NoneStr
    /\ UNCHANGED <<peer, readers, args, status, sub_router, req, generator, added>>

\* await app(scope, receive, send), up to the call of the built chain: the scope is
\* stamped and self.middleware_stack is read.
CallEnter ==
    /\ status = "ready"
    /\ req.phase = "none"
    /\ \E incoming \in IncomingRoots :
        req' = [NoRequest EXCEPT
                  !.phase = "entered",
                  !.incoming = incoming,
                  !.root_path = call_scope(incoming, app),
                  !.stack = app.middleware_stack]
    /\ last_include' = NoneStr
    /\ UNCHANGED <<peer, readers, args, status, app, sub_router, generator, gen_calls, openapi_rets, added>>

\* A run that looks the chain up again on the application while the request is
\* inside it
CallRun_reread ==
    /\ req.phase = "entered"
    /\ \E path \in ReqPaths :
       \E o \in Outcomes(app.middleware_stack, app.routes, path) :
        LET c == InnerChain(app.middleware_stack, app.routes, path, o[1], o[2])
            schema == c.endpoint = "openapi"
            r == openapi(generator, app)
            b == ServerErrorMiddleware(app.middleware_stack, c.raised)
        IN  /\ schema => Len(openapi_rets) < MaxOpenapiCalls
            /\ app' = IF schema THEN [app EXCEPT !.openapi_schema = r.schema] ELSE app
            /\ gen_calls' = gen_calls + (IF schema /\ r.generated THEN 1 ELSE 0)
            /\ openapi_rets' = IF schema THEN Append(openapi_rets, r.schema)
                               ELSE openapi_rets
            /\ req' = [req EXCEPT
                  !.phase = "done",
                  !.path = path,
                  !.trace = c.trace,
                  !.raised = c.raised,
                  !.responses =
                      IF c.raised = "" THEN <<c.response>>
                      ELSE IF app.middleware_stack.boundary THEN <<b.response>> ELSE <<>>,
                  !.reported =
                      IF c.raised # "" /\ app.middleware_stack.boundary THEN b.reported ELSE 0,
                  !.escaped = (c.raised # "" /\ ~app.middleware_stack.boundary)]
    /\ last_include' = NoneStr
    /\ UNCHANGED <<peer, readers, args, status, sub_router, generator, added>>

\* The chain read at entry runs the request to its end.  The schema route's
\* handler is lambda r: JSONResponse(self.openapi()).
CallRun ==
    /\ req.phase = "entered"
    /\ \E path \in ReqPaths :
       \E o \in Outcomes(req.stack, app.routes, path) :
        LET c == InnerChain(req.stack, app.routes, path, o[1], o[2])
            schema == c.endpoint = "openapi"
            r == openapi(generator, app)
            b == ServerErrorMiddleware(req.stack, c.raised)
        IN  /\ schema => Len(openapi_rets) < MaxOpenapiCalls
            /\ app' = IF schema THEN [app EXCEPT !.openapi_schema = r.schema] ELSE app
            /\ gen_calls' = gen_calls + (IF schema /\ r.generated THEN 1 ELSE 0)
            /\ openapi_rets' = IF schema THEN Append(openapi_rets, r.schema)
                               ELSE openapi_rets
            /\ req' = [req EXCEPT
                  !.phase = "done",
                  !.path = path,
                  !.trace = c.trace,
                  !.raised = c.raised,
                  !.responses =
                      IF c.raised = "" THEN <<c.response>>
                      ELSE IF req.stack.boundary THEN <<b.response>> ELSE <<>>,
                  !.reported =
                      IF c.raised # "" /\ req.stack.boundary THEN b.reported ELSE 0,
                  !.escaped = (c.raised # "" /\ ~req.stack.boundary)]
    /\ last_include' = NoneStr
    /\ UNCHANGED <<peer, readers, args, status, sub_router, generator, added>>

\* The response (or the escaped failure) is handed to the host, which happens
\* before anything else is done with the application.
CallReturn ==
    /\ req.phase = "done"
    /\ req' = NoRequest
    /\ last_include' = NoneStr
    /\ UNCHANGED <<peer, readers, args, status, app, sub_router, generator, gen_calls, openapi_rets, added>>

Next ==
    \/ __init__
    \/ AddRoute
    \/ AddWebsocketRoute
    \/ IncludeRouter
    \/ AddMiddleware
    \/ OpenAPI
    \/ CallEnter
    \/ CallRun
    \/ CallReturn

Spec == Init /\ [][Next]_vars

\* The same application constructed with each handler map and debug flag.
InitErr ==
    InitWith(CtorArgs({GoodUrls}, BOOLEAN, {<<>>}, {NoneList}, {NoneDict} \cup HandlerMaps),
             {"standard"})

SpecErr == InitErr /\ [][Next]_vars

\* The same application with one of two schema generators linked in.
InitSchema ==
    InitWith(CtorArgs({GoodUrls}, {FALSE}, {<<>>}, {NoneList}, {NoneDict}), Generators)

SpecSchema == InitSchema /\ [][Next]_vars

\* The same application constructed with every combination of auxiliary paths.
InitSetup ==
    InitWith(CtorArgs(AllUrls, {FALSE}, {<<>>}, {NoneList}, {NoneDict}), {"standard"})

\* Construction followed by the serving phase only.
NextSetup ==
    \/ __init__
    \/ OpenAPI
    \/ CallEnter
    \/ CallRun
    \/ CallReturn

SpecSetup == InitSetup /\ [][NextSetup]_vars

-----------------------------------------------------------------------------
(* openapi() run by several threads: src lines 220-237, statement by       *)
(* statement.  The schema route's handler (line 184) is a plain function,  *)
(* which the host runs outside the event loop, one thread per request.     *)

\* line 222: if not self.openapi_schema
ReadCheck(r) ==
    /\ status = "ready"
    /\ readers[r].pc = "idle"
    /\ readers' = [readers EXCEPT ![r].pc =
                      IF Falsy(app.openapi_schema) THEN "generate" ELSE "return"]
    /\ UNCHANGED <<args, status, app, sub_router, req, generator, gen_calls,
                   openapi_rets, added, last_include, peer>>

\* lines 223-236: the call get_openapi(..., routes=self.routes, ...)
ReadGenerate(r) ==
    /\ readers[r].pc = "generate"
    /\ readers' = [readers EXCEPT ![r] =
                      [pc |-> "store", doc |-> get_openapi(generator, app.routes)]]
    /\ gen_calls' = gen_calls + 1
    /\ UNCHANGED <<args, status, app, sub_router, req, generator, openapi_rets,
                   added, last_include, peer>>

\* line 223: self.openapi_schema = <the generated document>
ReadStore(r) ==
    /\ readers[r].pc = "store"
    /\ app' = [app EXCEPT !.openapi_schema = readers[r].doc]
    /\ readers' = [readers EXCEPT ![r].pc = "return"]
    /\ UNCHANGED <<args, status, sub_router, req, generator, gen_calls, openapi_rets,
                   added, last_include, peer>>

\* line 237: return self.openapi_schema
ReadReturn(r) ==
    /\ readers[r].pc = "return"
    /\ readers' = [readers EXCEPT ![r] = [pc |-> "done", doc |-> app.openapi_schema]]
    /\ openapi_rets' = Append(openapi_rets, app.openapi_schema)
    /\ UNCHANGED <<args, status, app, sub_router, req, generator, gen_calls,
                   added, last_include, peer>>

\* No thread has entered openapi() yet: the configuration phase.
ConfigurationPhase == \A r \in Readers : readers[r].pc = "idle"

ConfigAddRoute == ConfigurationPhase /\ AddRoute

Check == \E r \in Readers : ReadCheck(r)
Generate == \E r \in Readers : ReadGenerate(r)
Store == \E r \in Readers : ReadStore(r)
Return == \E r \in Readers : ReadReturn(r)

NextConc ==
    \/ __init__
    \/ ConfigAddRoute
    \/ Check
    \/ Generate
    \/ Store
    \/ Return

\* Routes are registered first; then the readers run, in any interleaving.
SpecConc == Init /\ [][NextConc]_vars

-----------------------------------------------------------------------------
(* A second instance constructed by the caller who constructed `app`.      *)

\* The caller's list object as it is now: `app` holds that very object when the
\* list was non-empty at construction (line 168).
CallersList ==
    IF middleware_or_empty(args.middleware).fresh
    THEN args.middleware ELSE app.user_middleware

\* A list of the caller's that no other instance was given.
OwnLists == {NoneList, <<"M2">>}

\* peer = FastAPI(middleware=...): src lines 168-169, with the caller's list
\* again (same) or with a list of its own.
PeerInit ==
    /\ status = "ready"
    /\ peer.status = "none"
    /\ \E same \in BOOLEAN, own \in OwnLists, rd \in UnassignedReads :
        LET mo == middleware_or_empty(IF same THEN CallersList ELSE own)
        IN  /\ ~rd.raises
            /\ peer' = [status |-> "ready",
                        user_middleware |-> mo.list,
                        middleware_stack |->
                            build_middleware_stack(mo.list, args.debug, rd.value),
                        shared |-> same /\ ~mo.fresh]
    /\ UNCHANGED <<args, status, app, sub_router, req, generator, gen_calls,
                   openapi_rets, added, last_include, readers>>

\* The constructor called with no list, an empty list or a list of one descriptor.
InitPeer ==
    InitWith(CtorArgs({GoodUrls}, {FALSE}, {<<>>}, {NoneList, <<>>, <<"M1">>}, {NoneDict}),
             {"standard"})

NextPeer ==
    \/ __init__
    \/ PeerInit
    \/ AddMiddleware

SpecPeer == InitPeer /\ [][NextPeer]_vars

-----------------------------------------------------------------------------
(* Properties *)

RECURSIVE Reverse(_)
Reverse(q) == IF q = <<>> THEN <<>> ELSE Append(Reverse(Tail(q)), Head(q))

IsSuffix(q, w) == Len(q) <= Len(w) /\ SubSeq(w, Len(w) - Len(q) + 1, Len(w)) = q

\* middleware or []
CtorMiddleware ==
    IF args.middleware = NoneList THEN <<>> ELSE args.middleware

Served == req.phase = "done"

\* C1: any two calls of openapi() on the application return the same document,
\* whatever was registered between them.
C1_SameDocument ==
    \A i, j \in 1..Len(openapi_rets) : openapi_rets[i] = openapi_rets[j]

\* C2: the most recently added middleware is outermost.  add_middleware puts the
\* new descriptor at the front of the sequence and rebuilds the chain at once, so
\* the chain's layers are the add_middleware calls latest first, then the
\* constructor's list; a request runs the pre-processing of the layers of its chain
\* in that order, and the router's dispatch comes after all of them.
C2_MostRecentOutermost ==
    status = "ready" =>
        /\ app.user_middleware = Reverse(added) \o CtorMiddleware
        /\ app.middleware_stack.layers = app.user_middleware
        /\ req.phase # "none" => IsSuffix(req.stack.layers, app.middleware_stack.layers)
        /\ Served =>
            LET layers == req.stack.layers
                t == req.trace
                pre == SelectSeq(t, LAMBDA e : e[1] = "pre")
            IN  /\ Len(pre) <= Len(layers)
                /\ \A i \in 1..Len(pre) : t[i] = <<"pre", layers[i]>>
                /\ \A i \in 1..Len(t) :
                      t[i][1] = "dispatch" => i = Len(t) /\ Len(pre) = Len(layers)

\* C2's case: M1 was added, then M2, and a request ran M2's pre-processing, then
\* M1's, then the dispatch.
C2_Witness ==
    /\ added = <<"M1", "M2">>
    /\ CtorMiddleware = <<>>
    /\ Served
    /\ req.trace = <<<<"pre", "M2">>, <<"pre", "M1">>, <<"dispatch", "router">>>>

\* C3: the context the chain receives carries the application's configured root
\* path, whatever the incoming context carried.
C3_RootPathStamped ==
    req.phase # "none" => req.root_path = app.root_path

\* C3's case: the incoming context carried another root path, and the chain ran.
C3_Witness ==
    /\ Served
    /\ req.incoming # NoneStr
    /\ req.incoming # app.root_path
    /\ Len(req.responses) = 1

\* C3's other case: the incoming context carried no root path.
C3_WitnessNone ==
    /\ req.phase = "entered"
    /\ req.incoming = NoneStr
    /\ app.root_path # <<>>

\* C4: a failure of kind K raised during dispatch is answered by the handler the
\* application's Exception Handler Map holds for K, or else for the nearest
\* ancestor of K, or else for the catch-all.
C4_HandlerOfKind ==
    (Served /\ req.raised # "") =>
        LET h == LookupHandler(app.exception_handlers, req.raised)
        IN  h # "" => req.responses = <<Response("handled", h, FALSE)>>

C6_EveryPathChecked ==
    status = "ready" =>
        \A u \in {args.openapi_url, args.docs_url,
                  args.swagger_ui_oauth2_redirect_url, args.redoc_url} :
            Truthy(u) => StartsWithSlash(u)

\* Whether setup registers the record of each auxiliary path.
RegistersOpenapi == Truthy(args.openapi_url)
RegistersDocs == RegistersOpenapi /\ Truthy(args.docs_url)
RegistersOauth2 == RegistersDocs /\ Truthy(args.swagger_ui_oauth2_redirect_url)
RegistersRedoc == RegistersOpenapi /\ Truthy(args.redoc_url)

BadRegisteredPath ==
    \/ RegistersOpenapi /\ ~StartsWithSlash(args.openapi_url)
    \/ RegistersDocs /\ ~StartsWithSlash(args.docs_url)
    \/ RegistersOauth2 /\ ~StartsWithSlash(args.swagger_ui_oauth2_redirect_url)
    \/ RegistersRedoc /\ ~StartsWithSlash(args.redoc_url)

\* C6, amended: when an auxiliary path whose record setup registers lacks the
\* leading "/", the constructor raises, and no request is served by that instance.
C6_RegisteredPathChecked ==
    /\ (status # "new" /\ BadRegisteredPath) => status \in {"AssertionError", "AttributeError"}
    /\ status # "ready" => req = NoRequest /\ app = NoApp

\* C6's case: docs path "docs" with the schema path configured; setup's assert failed.
C6_Witness ==
    /\ status = "AssertionError"
    /\ args.docs_url = <<"docs">>
    /\ args.openapi_url = DefaultOpenapiUrl
    /\ args.redoc_url = DefaultRedocUrl
    /\ args.swagger_ui_oauth2_redirect_url = DefaultOauth2Url

\* C7: a request that reached the entry point ends in exactly one response; a
\* failure raised by a middleware, the router or the handler is answered by the
\* error boundary and does not escape the entry point's call.
C7_OneResponse ==
    Served => Len(req.responses) = 1 /\ ~req.escaped

\* C7's cases: a handler raised, and a middleware raised before the dispatch.
C7_Witness ==
    /\ Served
    /\ req.raised # ""
    /\ req.trace # <<>>
    /\ req.trace[Len(req.trace)][1] = "pre"
    /\ Len(req.responses) = 1

C7_WitnessHandler ==
    /\ Served
    /\ req.raised # ""
    /\ req.trace # <<>>
    /\ req.trace[Len(req.trace)][1] = "dispatch"
    /\ Len(req.responses) = 1

\* C8: after construction and after every add_middleware the built chain is
\* build(middleware sequence, router, the application's exception handlers, debug).
C8_ChainIsBuildOfState ==
    status = "ready" =>
        app.middleware_stack =
            build_middleware_stack(app.user_middleware, app._debug, app.exception_handlers)

\* C9: include_router(sub, prefix) adds, for the sub-registry's record at "/x", a
\* record at prefix + "/x" ("/p/x" for prefix "/p", "/x" for prefix ""), and
\* leaves the sub-registry's records as they were.
C9_PrefixedRecord ==
    last_include # NoneStr =>
        LET n == Len(app.routes)
            k == Len(sub_router)
        IN  /\ n >= k
            /\ \A i \in 1..k : app.routes[n - k + i].path = last_include \o sub_router[i].path
            /\ last_include = <<"/", "p">> => app.routes[n].path = <<"/", "p", "/", "x">>
            /\ last_include = <<>> => app.routes[n].path = <<"/", "x">>
            /\ sub_router = <<Route(UserPath, "user", TRUE)>>

\* C9's case: the sub-registry was included under "/p".
C9_Witness ==
    /\ last_include = <<"/", "p">>
    /\ app.routes[Len(app.routes)].path = <<"/", "p", "/", "x">>

\* C10: the schema generator is invoked at most once, and once a call of openapi()
\* has returned the cache is never empty again.
C10_GeneratedOnce ==
    /\ gen_calls <= 1
    /\ openapi_rets # <<>> => ~app.openapi_schema.none

\* C11: a step that registers a route on a constructed application (add_route,
\* include_router, add_websocket_route) leaves the built chain and the middleware
\* sequence as they were, and the chain a request runs through dispatches on the
\* registry as it is at dispatch time: the request is answered by a record exactly
\* when the registry then holds a record for its path.
C11_RegistrationKeepsChain ==
    /\ [][(status = "ready" /\ app'.routes # app.routes) =>
            /\ app'.middleware_stack = app.middleware_stack
            /\ app'.user_middleware = app.user_middleware
            /\ req' = req]_vars
    /\ [](( /\ Served
            /\ req.trace # <<>>
            /\ req.trace[Len(req.trace)] = <<"dispatch", "router">>
            /\ req.raised = "") =>
              /\ Len(req.responses) = 1
              /\ (req.responses[1].status = "200") <=> (Match(app.routes, req.path) # 0))

\* C11's case: no add_middleware was ever called, so the chain is the one built
\* during construction; a route registered afterwards answered a request.
C11_Witness ==
    /\ added = <<>>
    /\ UserRoutes = 1
    /\ Served
    /\ req.path = UserPath
    /\ req.stack = app.middleware_stack
    /\ req.trace[Len(req.trace)] = <<"dispatch", "router">>
    /\ req.responses = <<Response("200", "", FALSE)>>

\* The handlers of the records setup registers.
AuxEndpoints == {"openapi", "swagger_ui", "oauth2_redirect", "redoc"}

AuxRecords == {i \in 1..Len(app.routes) : app.routes[i].endpoint \in AuxEndpoints}

\* C12: every record setup registers carries include_in_schema = false, so no
\* auxiliary route is among the records visible to the schema generator, nor in
\* the document held by the cache.
C12_AuxiliaryHidden ==
    status = "ready" =>
        \A i \in AuxRecords :
            /\ ~app.routes[i].include_in_schema
            /\ app.routes[i].path \notin VisiblePaths(app.routes)
            /\ app.routes[i].path \notin app.openapi_schema.paths

\* C12's case: all four auxiliary records are registered next to a visible user
\* route, and the document was generated from that registry.
C12_Witness ==
    /\ status = "ready"
    /\ {app.routes[i].endpoint : i \in AuxRecords} = AuxEndpoints
    /\ VisiblePaths(app.routes) = {UserPath}
    /\ app.openapi_schema.paths = {UserPath}

\* The records of the registry that have handler e.
RecordsOf(e) == {i \in 1..Len(app.routes) : app.routes[i].endpoint = e}

\* Handler e has exactly one record, at path p, when wanted, and none otherwise.
OneRecordIff(e, p, wanted) ==
    IF wanted
    THEN \E i \in RecordsOf(e) : RecordsOf(e) = {i} /\ app.routes[i].path = p
    ELSE RecordsOf(e) = {}

\* C13 as stated: a constructed application has a record for each auxiliary path
\* that is configured, and none for a path that is not.
C13_RecordPerConfiguredPath ==
    status = "ready" =>
        /\ OneRecordIff("openapi", args.openapi_url, Truthy(args.openapi_url))
        /\ OneRecordIff("swagger_ui", args.docs_url, Truthy(args.docs_url))
        /\ OneRecordIff("redoc", args.redoc_url, Truthy(args.redoc_url))
        /\ Truthy(args.swagger_ui_oauth2_redirect_url) \/ RecordsOf("oauth2_redirect") = {}

\* C13, amended: setup runs once, in the constructor, and registers the schema
\* record iff the schema path is configured, the docs record and the
\* alternate-docs record iff their own path and the schema path are configured,
\* and the OAuth2 redirect record iff the redirect path, the docs path and the
\* schema path are configured; each record is registered once, at its path.
C13_RegisteredIffConfigured ==
    status = "ready" =>
        /\ OneRecordIff("openapi", args.openapi_url, RegistersOpenapi)
        /\ OneRecordIff("swagger_ui", args.docs_url, RegistersDocs)
        /\ OneRecordIff("oauth2_redirect", args.swagger_ui_oauth2_redirect_url,
                        RegistersOauth2)
        /\ OneRecordIff("redoc", args.redoc_url, RegistersRedoc)

\* C13's case: every path but the redirect path is configured, and the registry
\* holds the schema, docs and alternate-docs records and no redirect record.
C13_Witness ==
    /\ status = "ready"
    /\ args.swagger_ui_oauth2_redirect_url = NoneStr
    /\ [i \in 1..Len(app.routes) |-> app.routes[i].endpoint]
           = <<"openapi", "swagger_ui", "redoc">>
    /\ app.routes[2].path = DefaultDocsUrl

\* C13's other case: the docs path is configured and the schema path is not; the
\* application is constructed without a docs record.
C13_WitnessNoSchema ==
    /\ status = "ready"
    /\ args.openapi_url = NoneStr
    /\ args.docs_url = DefaultDocsUrl
    /\ app.routes = <<>>

\* C14: readers of the schema cache that start from the empty cache and run
\* concurrently invoke the generator once between them, and all get the same
\* document.
C14_WrittenOnce ==
    /\ gen_calls <= 1
    /\ \A i, j \in 1..Len(openapi_rets) : openapi_rets[i] = openapi_rets[j]

\* The part of C14 that does hold while no route is registered during serving:
\* every reader returns the document of the registry.
C14_SameDocumentReturned ==
    \A r \in Readers :
        readers[r].pc = "done" => readers[r].doc = get_openapi(generator, app.routes)

\* C15: add_middleware on the application changes its own middleware sequence and
\* built chain only; the middleware sequence and the chain of any other
\* application stay as they were.
C15_PeerUnchanged ==
    [][(peer.status = "ready" /\ app'.user_middleware # app.user_middleware) =>
          /\ peer'.user_middleware = peer.user_middleware
          /\ peer'.middleware_stack = peer.middleware_stack]_vars

\* The part of C15 that does hold: an application that does not hold the same
\* list object keeps its sequence, and the chain of the other application is
\* never replaced.
C15_UnsharedPeerUnchanged ==
    [][(peer.status = "ready" /\ app'.user_middleware # app.user_middleware) =>
          /\ ~peer.shared => peer'.user_middleware = peer.user_middleware
          /\ peer'.middleware_stack = peer.middleware_stack]_vars

\* The events of a run through chain `stack`: the pre-processing of its first k
\* layers in order, then, when all layers passed the request on, the dispatch.
IsRunOf(trace, stack) ==
    LET n == Len(stack.layers)
    IN  \/ \E k \in 1..n : trace = PreEvents(stack.layers, k)
        \/ trace = PreEvents(stack.layers, n) \o <<<<"dispatch", stack.app>>>>

\* C16: the entry point reads the built-chain reference once per request.  A
\* request takes the chain that is current when it enters; add_middleware
\* replacing the application's chain while the request is inside leaves the
\* request's chain as it was, and the request runs through that chain to its
\* end, failures being answered by that chain's boundary.
C16_ChainReadOnce ==
    /\ [][(req.phase = "none" /\ req'.phase = "entered") =>
              req'.stack = app.middleware_stack]_vars
    /\ [][(req.phase = "entered" /\ req'.phase # "none") =>
              req'.stack = req.stack]_vars
    /\ [](Served =>
            /\ IsRunOf(req.trace, req.stack)
            /\ req.raised # "" =>
                  req.responses = <<ServerErrorMiddleware(req.stack, req.raised).response>>)

\* C16's case: add_middleware replaced the chain while the request was inside; the
\* request ran through all of the chain it had entered and was dispatched.
C16_Witness ==
    /\ Served
    /\ req.stack # app.middleware_stack
    /\ Len(app.middleware_stack.layers) > Len(req.stack.layers)
    /\ req.trace = PreEvents(req.stack.layers, Len(req.stack.layers))
                       \o <<<<"dispatch", "router">>>>
    /\ Len(req.responses) = 1

====
